---- MODULE Spec2Model ----
(***************************************************************************)
(* State-machine model of the ARFocusMVP component (src/src/App.tsx) as    *)
(* mounted by src/main.tsx: the work/break interval clock, the per-tick    *)
(* HP scoring, the session recorder, the camera/model boot effect and the  *)
(* requestAnimationFrame inference loop with its distraction debounce.     *)
(*                                                                         *)
(* Units: hp is kept in hundredths of a point (100.00 -> 10000, the reward *)
(* 0.06 -> 6, the penalty 0.5 -> 50); times are in milliseconds and move   *)
(* in steps of TimeStep.  focusedNow (boolean | null in the source) is one *)
(* of the three strings Focused / Distracted / Unknown.                    *)
(***************************************************************************)
EXTENDS Integers, Sequences, FiniteSets, TLC

\* ------------------------------------------------------------------ bounds
MaxTicks   == 2      \* ticks counted into one session in the general specs
MaxDate    == 2      \* reads of the wall clock (new Date())
MaxElapsed == 2000   \* (ts - lastInferTs) and the streak saturate here
TimeStep   == 500    \* granularity of time in the attention specifications, ms
CoarseStep == 1000   \* granularity of time in the timer specifications, ms
ScoreTicks == 15     \* ticks of one session in the scoring specification
ClockTicks == 1900   \* ticks of one run in the clock specification
LongTicks  == 305    \* ticks of one session in the long-session specification
ConfigTicks == 303   \* ticks of one session in the configuration specification
NearEnd    == 2      \* seconds before a phase ends in which events arrive there

\* -------------------------------------------------------- program constants
distractGraceMs       == 1500
focusRewardPerSec     == 6
distractPenaltyPerSec == 50
HpMax                 == 10000
IntervalMs            == 1000
InferGapMs            == 200
LogCap                == 300
InitWorkMinutes       == 25
InitBreakMinutes      == 5
WorkMin               == 5
WorkMax               == 120
BreakMin              == 3
BreakMax              == 60

Focused    == "focused"
Distracted == "distracted"
Unknown    == "unknown"

WorkInputs  == {4}
BreakInputs == {2}
Modes       == {"alpha", "beta"}
MaxBoots    == 2
MaxLoops    == 1
BootIds     == 1..MaxBoots
LoopIds     == 1..MaxLoops

VARIABLES
  workMinutes, breakMinutes, isRunning, isOnBreak, secondsLeft,
  hp, focusSec, distractSec, hpStartRef, mode, sessions, sessionStartRef,
  stored,
  cameraOn, modelReady, inferenceActive, focusedNow, distractionStreakMs,
  detectorRef, videoSrc, videoReady, boots, curBoot, loops, rafRef,
  sinceInterval, sinceInfer, dateNow,
  ticks, lastOp, pre, logTicks, runMs, runLen

timerVars == <<workMinutes, breakMinutes, isRunning, isOnBreak, secondsLeft,
               hp, focusSec, distractSec, hpStartRef, mode, sessions,
               sessionStartRef, stored, dateNow>>
attnVars  == <<cameraOn, modelReady, inferenceActive, focusedNow,
               distractionStreakMs, detectorRef, videoSrc, videoReady,
               boots, curBoot, loops, rafRef, sinceInfer>>
attnVarsButBoots == <<cameraOn, modelReady, inferenceActive, focusedNow,
                      distractionStreakMs, detectorRef, videoSrc, videoReady,
                      curBoot, loops, rafRef, sinceInfer>>
ghostVars == <<ticks, lastOp, pre, logTicks, runMs, runLen>>
vars == <<timerVars, attnVars, sinceInterval, ghostVars>>

\* ------------------------------------------------------------------ helpers
Min(a, b) == IF a < b THEN a ELSE b
Max(a, b) == IF a > b THEN a ELSE b

\* variant: the lower limit is missing
ClampHpNoFloor(h) == Min(HpMax, h)

\* Math.max(0, Math.min(100, h + delta))
ClampHp(h) == Max(0, Min(HpMax, h))

\* Math.max(5, Math.min(120, Number(e.target.value)))
ClampWork(n) == Max(WorkMin, Min(WorkMax, n))
\* Math.max(3, Math.min(60, Number(e.target.value)))
ClampBreak(n) == Max(BreakMin, Min(BreakMax, n))

\* variant: the slice is missing, the log grows without bound
PrependUncapped(log, list) == <<log>> \o list

\* [log, ...sessions].slice(0, 300)
Prepend(log, list) == SubSeq(<<log>> \o list, 1, Min(Len(list) + 1, LogCap))

\* values above MaxElapsed are all kept as MaxElapsed (> distractGraceMs)
Sat(n) == Min(n, MaxElapsed)

\* dependency list of the 1 Hz interval effect
IntervalDeps == <<isRunning, isOnBreak, breakMinutes, workMinutes, focusedNow>>

\* variant: the effects reload whether the timer is running or not
ReloadEffectsWhileRunning(sl) ==
  LET workFired  == <<workMinutes, isRunning, isOnBreak>>' # <<workMinutes, isRunning, isOnBreak>>
      breakFired == <<breakMinutes, isRunning, isOnBreak>>' # <<breakMinutes, isRunning, isOnBreak>>
      afterWork  == IF workFired /\ ~isOnBreak' THEN workMinutes' * 60 ELSE sl
  IN  IF breakFired /\ isOnBreak' THEN breakMinutes' * 60 ELSE afterWork

\* the two reload effects, run after a commit that set secondsLeft to sl
ReloadEffects(sl) ==
  LET workFired  == <<workMinutes, isRunning, isOnBreak>>' # <<workMinutes, isRunning, isOnBreak>>
      breakFired == <<breakMinutes, isRunning, isOnBreak>>' # <<breakMinutes, isRunning, isOnBreak>>
      afterWork  == IF workFired /\ ~isRunning' /\ ~isOnBreak' THEN workMinutes' * 60 ELSE sl
  IN  IF breakFired /\ ~isRunning' /\ isOnBreak' THEN breakMinutes' * 60 ELSE afterWork

\* the interval effect: a change of a dependency clears the interval and
\* creates a new one, whose first callback is a full period away
IntervalEffect(elapsed) ==
  sinceInterval' = IF ~isRunning' \/ IntervalDeps' # IntervalDeps THEN 0 ELSE elapsed

Snapshot == [secondsLeft |-> secondsLeft, isOnBreak |-> isOnBreak, hp |-> hp,
             focusSec |-> focusSec, distractSec |-> distractSec,
             isRunning |-> isRunning, open |-> sessionStartRef # 0,
             sessions |-> sessions, focusedNow |-> focusedNow,
             streak |-> distractionStreakMs, runLen |-> runLen]

\* bookkeeping for the properties below: the last step taken and the
\* observable state it started from.  ticks counts the interval callbacks
\* since the open-session marker was last cleared; logTicks keeps that count
\* for each saved entry; runLen is the number (2 = two or more) of absent
\* samples since a present sample with no unavailable event in between (-1
\* when there is no such run) and runMs the sum of their elapsed times.
Note(op) == /\ lastOp' = op
            /\ pre' = Snapshot

\* ---------------------------------------------------------- session commands
\* variant: every start of a stopped timer captures the start marker and
\* hpStart again, an open session or not
startTimerRecaptures ==
  /\ IF isRunning
       THEN UNCHANGED <<isRunning, sessionStartRef, dateNow, hpStartRef>>
       ELSE /\ isRunning' = TRUE
            /\ dateNow < MaxDate
            /\ sessionStartRef' = dateNow + 1
            /\ dateNow' = dateNow + 1
            /\ hpStartRef' = hp
  /\ UNCHANGED <<workMinutes, breakMinutes, isOnBreak, hp, focusSec, distractSec,
                 mode, sessions, stored>>
  /\ secondsLeft' = ReloadEffects(secondsLeft)
  /\ UNCHANGED attnVars
  /\ IntervalEffect(sinceInterval)
  /\ Note("start")
  /\ UNCHANGED <<ticks, logTicks, runMs, runLen>>

startTimer ==
  /\ IF isRunning
       THEN UNCHANGED <<isRunning, sessionStartRef, dateNow, hpStartRef>>
       ELSE /\ isRunning' = TRUE
            /\ IF sessionStartRef = 0
                 THEN /\ dateNow < MaxDate
                      /\ sessionStartRef' = dateNow + 1
                      /\ dateNow' = dateNow + 1
                      /\ hpStartRef' = hp
                 ELSE UNCHANGED <<sessionStartRef, dateNow, hpStartRef>>
  /\ UNCHANGED <<workMinutes, breakMinutes, isOnBreak, hp, focusSec, distractSec,
                 mode, sessions, stored>>
  /\ secondsLeft' = ReloadEffects(secondsLeft)
  /\ UNCHANGED attnVars
  /\ IntervalEffect(sinceInterval)
  /\ Note("start")
  /\ UNCHANGED <<ticks, logTicks, runMs, runLen>>

pauseTimer ==
  /\ isRunning' = FALSE
  /\ UNCHANGED <<workMinutes, breakMinutes, isOnBreak, hp, focusSec, distractSec,
                 hpStartRef, mode, sessions, sessionStartRef, stored, dateNow>>
  /\ secondsLeft' = ReloadEffects(secondsLeft)
  /\ UNCHANGED attnVars
  /\ IntervalEffect(0)
  /\ Note("pause")
  /\ UNCHANGED <<ticks, logTicks, runMs, runLen>>

\* variant: the phase is not put back to Work
resetTimerKeepsPhase ==
  /\ isRunning' = FALSE
  /\ UNCHANGED isOnBreak
  /\ focusSec' = 0
  /\ distractSec' = 0
  /\ hp' = HpMax
  /\ sessionStartRef' = 0
  /\ UNCHANGED <<workMinutes, breakMinutes, hpStartRef, mode, sessions, stored, dateNow>>
  /\ secondsLeft' = ReloadEffects(workMinutes * 60)
  /\ UNCHANGED attnVars
  /\ IntervalEffect(0)
  /\ Note("reset")
  /\ ticks' = 0
  /\ UNCHANGED <<logTicks, runMs, runLen>>

\* variant: HP is not put back to 100
resetTimerKeepsHp ==
  /\ isRunning' = FALSE
  /\ isOnBreak' = FALSE
  /\ focusSec' = 0
  /\ distractSec' = 0
  /\ UNCHANGED hp
  /\ sessionStartRef' = 0
  /\ UNCHANGED <<workMinutes, breakMinutes, hpStartRef, mode, sessions, stored, dateNow>>
  /\ secondsLeft' = ReloadEffects(workMinutes * 60)
  /\ UNCHANGED attnVars
  /\ IntervalEffect(0)
  /\ Note("reset")
  /\ ticks' = 0
  /\ UNCHANGED <<logTicks, runMs, runLen>>

resetTimer ==
  /\ isRunning' = FALSE
  /\ isOnBreak' = FALSE
  /\ focusSec' = 0
  /\ distractSec' = 0
  /\ hp' = HpMax
  /\ sessionStartRef' = 0
  /\ UNCHANGED <<workMinutes, breakMinutes, hpStartRef, mode, sessions, stored, dateNow>>
  /\ secondsLeft' = ReloadEffects(workMinutes * 60)
  /\ UNCHANGED attnVars
  /\ IntervalEffect(0)
  /\ Note("reset")
  /\ ticks' = 0
  /\ UNCHANGED <<logTicks, runMs, runLen>>

\* the SessionLog built by stopAndSave at wall-clock reading now
MakeLog(now) ==
  [id |-> now,
   startedAt   |-> IF sessionStartRef # 0 THEN sessionStartRef ELSE now,
   endedAt     |-> now,
   durationSec |-> focusSec + distractSec,
   workMinutes |-> workMinutes, breakMinutes |-> breakMinutes,
   focusSec    |-> focusSec, distractSec |-> distractSec,
   hpStart     |-> hpStartRef, hpEnd |-> hp, mode |-> mode]

\* variant: the timer is not stopped by the save
stopAndSaveKeepsRunning(storageOk) ==
  /\ dateNow < MaxDate
  /\ dateNow' = dateNow + 1
  /\ UNCHANGED isRunning
  /\ sessions' = Prepend(MakeLog(dateNow + 1), sessions)
  /\ logTicks' = Prepend(ticks, logTicks)
  /\ UNCHANGED <<workMinutes, breakMinutes, hpStartRef, mode>>
  /\ IF storageOk
       THEN /\ stored' = sessions'
            /\ isOnBreak' = FALSE
            /\ focusSec' = 0
            /\ distractSec' = 0
            /\ hp' = HpMax
            /\ sessionStartRef' = 0
            /\ secondsLeft' = ReloadEffects(workMinutes * 60)
            /\ ticks' = 0
       ELSE /\ UNCHANGED <<stored, isOnBreak, focusSec, distractSec, hp, sessionStartRef, ticks>>
            /\ secondsLeft' = ReloadEffects(secondsLeft)
  /\ UNCHANGED attnVars
  /\ IntervalEffect(0)
  /\ Note(IF storageOk THEN "save" ELSE "saveFailed")
  /\ UNCHANGED <<runMs, runLen>>

\* storageOk = FALSE: localStorage.setItem throws, the rest of the handler
\* (the reset of the counters) is not executed
stopAndSave(storageOk) ==
  /\ dateNow < MaxDate
  /\ dateNow' = dateNow + 1
  /\ isRunning' = FALSE
  /\ sessions' = Prepend(MakeLog(dateNow + 1), sessions)
  /\ logTicks' = Prepend(ticks, logTicks)
  /\ UNCHANGED <<workMinutes, breakMinutes, hpStartRef, mode>>
  /\ IF storageOk
       THEN /\ stored' = sessions'
            /\ isOnBreak' = FALSE
            /\ focusSec' = 0
            /\ distractSec' = 0
            /\ hp' = HpMax
            /\ sessionStartRef' = 0
            /\ secondsLeft' = ReloadEffects(workMinutes * 60)
            /\ ticks' = 0
       ELSE /\ UNCHANGED <<stored, isOnBreak, focusSec, distractSec, hp, sessionStartRef, ticks>>
            /\ secondsLeft' = ReloadEffects(secondsLeft)
  /\ UNCHANGED attnVars
  /\ IntervalEffect(0)
  /\ Note(IF storageOk THEN "save" ELSE "saveFailed")
  /\ UNCHANGED <<runMs, runLen>>

\* ------------------------------------------------------------ configuration
setWorkMinutes(raw) ==
  /\ workMinutes' = ClampWork(raw)
  /\ UNCHANGED <<breakMinutes, isRunning, isOnBreak, hp, focusSec, distractSec,
                 hpStartRef, mode, sessions, sessionStartRef, stored, dateNow>>
  /\ secondsLeft' = ReloadEffects(secondsLeft)
  /\ UNCHANGED attnVars
  /\ IntervalEffect(sinceInterval)
  /\ Note("setWork")
  /\ UNCHANGED <<ticks, logTicks, runMs, runLen>>

setBreakMinutes(raw) ==
  /\ breakMinutes' = ClampBreak(raw)
  /\ UNCHANGED <<workMinutes, isRunning, isOnBreak, hp, focusSec, distractSec,
                 hpStartRef, mode, sessions, sessionStartRef, stored, dateNow>>
  /\ secondsLeft' = ReloadEffects(secondsLeft)
  /\ UNCHANGED attnVars
  /\ IntervalEffect(sinceInterval)
  /\ Note("setBreak")
  /\ UNCHANGED <<ticks, logTicks, runMs, runLen>>

setMode(m) ==
  /\ mode' = m
  /\ UNCHANGED <<workMinutes, breakMinutes, isRunning, isOnBreak, secondsLeft, hp,
                 focusSec, distractSec, hpStartRef, sessions, sessionStartRef,
                 stored, dateNow>>
  /\ UNCHANGED attnVars
  /\ UNCHANGED sinceInterval
  /\ Note("setMode")
  /\ UNCHANGED <<ticks, logTicks, runMs, runLen>>

\* ------------------------------------------------------------ the 1 Hz tick
\* variant: the phase flips one tick late (s <= 0)
NextClockLate(s, onBreak, wm, bm) ==
  IF s <= 0
    THEN <<(IF ~onBreak THEN bm ELSE wm) * 60, ~onBreak>>
    ELSE <<s - 1, onBreak>>

\* setSecondsLeft updater: the new <<secondsLeft, isOnBreak>>
NextClock(s, onBreak, wm, bm) ==
  IF s <= 1
    THEN <<(IF ~onBreak THEN bm ELSE wm) * 60, ~onBreak>>
    ELSE <<s - 1, onBreak>>

\* variant: the penalty is applied only to an explicit Distracted
NextHpSparesUnknown(h, f) ==
  ClampHp(h + (CASE f = Focused    -> focusRewardPerSec
                 [] f = Distracted -> -distractPenaltyPerSec
                 [] OTHER          -> 0))

\* setHp updater
NextHp(h, f) ==
  ClampHp(h + (IF f = Focused THEN focusRewardPerSec ELSE -distractPenaltyPerSec))

\* variant: only an explicit Distracted is kept out of focusSec
NextFocusSecCountsUnknown(x, f) == IF f # Distracted THEN x + 1 ELSE x

\* if (focusedNow) setFocusSec((x) => x + 1); else setDistractSec((x) => x + 1);
NextFocusSec(x, f) == IF f = Focused THEN x + 1 ELSE x

\* variant: only an explicit Distracted is counted, Unknown ticks are dropped
NextDistractSecDropsUnknown(x, f) == IF f = Distracted THEN x + 1 ELSE x

NextDistractSec(x, f) == IF f = Focused THEN x ELSE x + 1

\* the setInterval callback, at most maxT ticks per session
Tick(maxT) ==
  /\ isRunning
  /\ sinceInterval >= IntervalMs
  /\ ticks < maxT
  /\ secondsLeft' = NextClock(secondsLeft, isOnBreak, workMinutes, breakMinutes)[1]
  /\ isOnBreak' = NextClock(secondsLeft, isOnBreak, workMinutes, breakMinutes)[2]
  /\ hp' = NextHp(hp, focusedNow)
  /\ focusSec' = NextFocusSec(focusSec, focusedNow)
  /\ distractSec' = NextDistractSec(distractSec, focusedNow)
  /\ UNCHANGED <<workMinutes, breakMinutes, isRunning, hpStartRef, mode, sessions,
                 sessionStartRef, stored, dateNow>>
  /\ UNCHANGED attnVars
  /\ sinceInterval' = 0
  /\ Note("tick")
  /\ ticks' = ticks + 1
  /\ UNCHANGED <<logTicks, runMs, runLen>>

\* ------------------------------------------------ the inference loop effect
FreeLoops(L) == {c \in LoopIds : L[c].st = "none"}
FirstFree(L) == CHOOSE c \in FreeLoops(L) : \A d \in FreeLoops(L) : c <= d

\* cancelAnimationFrame(rafRef.current): only the most recently requested
\* frame can be cancelled; a loop awaiting estimateFaces is not stopped
CancelRaf(L, r) == IF r # 0 THEN [L EXCEPT ![r].st = "none"] ELSE L

\* useEffect(..., [inferenceActive, modelReady]) after a commit in which the
\* two take the values ia and mr, starting from loops L and rafRef r
LoopEffect(ia, mr, L, r) ==
  LET changed == <<ia, mr>> # <<inferenceActive, modelReady>>
      cleaned == changed /\ inferenceActive
      L1 == IF cleaned THEN CancelRaf(L, r) ELSE L
      r1 == IF cleaned THEN 0 ELSE r
  IN  IF changed /\ ia
        THEN /\ FreeLoops(L1) # {}
             /\ loops' = [L1 EXCEPT ![FirstFree(L1)] = [st |-> "sched", mr |-> mr, el |-> 0]]
             /\ rafRef' = FirstFree(L1)
        ELSE /\ loops' = L1
             /\ rafRef' = r1

\* ------------------------------------------------ the camera / model effect
\* one run of boot(): its position (at the end "done", or "failed" when the
\* outer catch ran in the boot of the current camera setting), the effect's
\* cancelled flag, the cameraOn it closed over (dropped once the run is
\* over) and its stream
NewBoot(cam) == [pc |-> "backend", cancelled |-> FALSE, cam |-> cam, stream |-> "none"]
IdleBoot     == [pc |-> "idle", cancelled |-> FALSE, cam |-> FALSE, stream |-> "none"]

\* the effect's cleanup for boot b followed by the effect's next run
BootCleanup(b) ==
  [boots EXCEPT ![b].cancelled = TRUE,
                ![b].pc = IF @ = "failed" THEN "done" ELSE @,
                ![b].stream = IF @ = "live" THEN "stopped" ELSE @]

\* onClick={() => setCameraOn((v) => !v)}: cleanup of the running effect,
\* then a new boot() with the new cameraOn
toggleCamera ==
  /\ curBoot < MaxBoots
  /\ cameraOn' = ~cameraOn
  /\ boots' = [BootCleanup(curBoot) EXCEPT ![curBoot + 1] = NewBoot(~cameraOn)]
  /\ curBoot' = curBoot + 1
  /\ inferenceActive' = FALSE
  /\ LoopEffect(FALSE, modelReady, CancelRaf(loops, rafRef), 0)
  /\ \E ready \in BOOLEAN :
        videoReady' = IF videoSrc = curBoot /\ boots[curBoot].stream = "live" /\ videoReady
                        THEN ready ELSE videoReady
  /\ UNCHANGED <<modelReady, focusedNow, distractionStreakMs, detectorRef, videoSrc, sinceInfer>>
  /\ UNCHANGED timerVars
  /\ UNCHANGED sinceInterval
  /\ Note("camera")
  /\ UNCHANGED <<ticks, logTicks, runMs, runLen>>

\* the catch of boot(): setInferenceActive(false)
BootFail(b) ==
  /\ boots' = [boots EXCEPT ![b].pc = IF boots[b].cancelled THEN "done" ELSE "failed",
                            ![b].cam = FALSE]
  /\ inferenceActive' = FALSE
  /\ LoopEffect(FALSE, modelReady, loops, rafRef)
  /\ UNCHANGED <<cameraOn, modelReady, focusedNow, distractionStreakMs, detectorRef,
                 videoSrc, videoReady, curBoot, sinceInfer>>

\* await tf.setBackend("webgl"); await tf.ready();
BootBackend(b, ok) ==
  /\ boots[b].pc = "backend"
  /\ IF ok
       THEN /\ boots' = [boots EXCEPT ![b].pc = IF boots[b].cam THEN "gum" ELSE "detector"]
            /\ UNCHANGED attnVarsButBoots
       ELSE BootFail(b)
  /\ UNCHANGED <<timerVars, sinceInterval>>
  /\ Note("step")
  /\ UNCHANGED <<ticks, logTicks, runMs, runLen>>

\* stream = await getUserMedia(...); videoRef.current.srcObject = stream
BootGum(b, ok) ==
  /\ boots[b].pc = "gum"
  /\ IF ok
       THEN /\ boots' = [boots EXCEPT ![b].pc = "play", ![b].stream = "live"]
            /\ videoSrc' = b
            /\ videoReady' = FALSE
            /\ UNCHANGED <<cameraOn, modelReady, inferenceActive, focusedNow,
                           distractionStreakMs, detectorRef, curBoot, loops, rafRef,
                           sinceInfer>>
       ELSE BootFail(b)
  /\ UNCHANGED <<timerVars, sinceInterval>>
  /\ Note("step")
  /\ UNCHANGED <<ticks, logTicks, runMs, runLen>>

\* await videoRef.current.play()
BootPlay(b, ok) ==
  /\ boots[b].pc = "play"
  /\ IF ok
       THEN /\ videoSrc = b
            /\ boots' = [boots EXCEPT ![b].pc = "detector"]
            /\ videoReady' = IF boots[b].stream = "live" THEN TRUE ELSE videoReady
            /\ UNCHANGED <<cameraOn, modelReady, inferenceActive, focusedNow,
                           distractionStreakMs, detectorRef, videoSrc, curBoot, loops,
                           rafRef, sinceInfer>>
       ELSE BootFail(b)
  /\ UNCHANGED <<timerVars, sinceInterval>>
  /\ Note("step")
  /\ UNCHANGED <<ticks, logTicks, runMs, runLen>>

\* createDetector(...) resolved (ok) or rejected, then
\* if (!cancelled) setInferenceActive(true)
BootDetector(b, ok) ==
  /\ boots[b].pc = "detector"
  /\ boots' = [boots EXCEPT ![b].pc = "done",
                            ![b].cam = FALSE]
  /\ detectorRef' = (ok \/ detectorRef)
  /\ modelReady' = ok
  /\ inferenceActive' = IF boots[b].cancelled THEN inferenceActive ELSE TRUE
  /\ LoopEffect(inferenceActive', modelReady', loops, rafRef)
  /\ UNCHANGED <<cameraOn, focusedNow, distractionStreakMs, videoSrc, videoReady,
                 curBoot, sinceInfer>>
  /\ UNCHANGED <<timerVars, sinceInterval>>
  /\ Note("step")
  /\ UNCHANGED <<ticks, logTicks, runMs, runLen>>

\* ------------------------------------------------------- the inference loop
\* one requestAnimationFrame callback of loop c, up to the await or the end
LoopFrame(c) ==
  /\ loops[c].st = "sched"
  /\ IF detectorRef /\ loops[c].mr /\ videoReady
       THEN /\ IF sinceInfer > InferGapMs
                 THEN /\ sinceInfer' = 0
                      /\ loops' = [loops EXCEPT ![c].st = "await", ![c].el = sinceInfer]
                      /\ rafRef' = IF rafRef = c THEN 0 ELSE rafRef
                 ELSE /\ rafRef' = c
                      /\ UNCHANGED <<sinceInfer, loops>>
            /\ UNCHANGED focusedNow
       ELSE /\ focusedNow' = Unknown
            /\ rafRef' = c
            /\ UNCHANGED <<sinceInfer, loops>>
  /\ UNCHANGED <<cameraOn, modelReady, inferenceActive, distractionStreakMs,
                 detectorRef, videoSrc, videoReady, boots, curBoot>>
  /\ UNCHANGED timerVars
  /\ IntervalEffect(sinceInterval)
  /\ Note(IF detectorRef /\ loops[c].mr /\ videoReady THEN "frame" ELSE "unavailable")
  /\ runLen' = IF detectorRef /\ loops[c].mr /\ videoReady THEN runLen ELSE -1
  /\ UNCHANGED <<ticks, logTicks, runMs>>

\* the debounce applied to one classification outcome
\*   r = "present": faces.length > 0, "absent": no face, "throw": the catch
\* variant: a present sample does not clear the streak
NextStreakKept(ms, r, elapsed) ==
  CASE r = "absent" -> Sat(ms + elapsed)
    [] OTHER        -> ms

NextStreak(ms, r, elapsed) ==
  CASE r = "present" -> 0
    [] r = "absent"  -> Sat(ms + elapsed)
    [] OTHER         -> ms

\* variant: no grace period, any absent sample is a distraction
NextFocusedNoGrace(f, ms, r, elapsed) ==
  CASE r = "present" -> Focused
    [] r = "absent"  -> Distracted
    [] OTHER         -> Unknown

\* variant: the threshold is tested on the streak before this sample
NextFocusedStale(f, ms, r, elapsed) ==
  CASE r = "present" -> Focused
    [] r = "absent"  -> IF ms > distractGraceMs THEN Distracted ELSE f
    [] OTHER         -> Unknown

\* variant: a failed classification keeps the previous AttentionState
NextFocusedKeptOnThrow(f, ms, r, elapsed) ==
  CASE r = "present" -> Focused
    [] r = "absent"  -> IF Sat(ms + elapsed) > distractGraceMs THEN Distracted ELSE f
    [] OTHER         -> f

NextFocused(f, ms, r, elapsed) ==
  CASE r = "present" -> Focused
    [] r = "absent"  -> IF Sat(ms + elapsed) > distractGraceMs THEN Distracted ELSE f
    [] OTHER         -> Unknown

\* estimateFaces settles for loop c; the loop then requests its next frame
InferResult(c, r) ==
  /\ loops[c].st = "await"
  /\ distractionStreakMs' = NextStreak(distractionStreakMs, r, loops[c].el)
  /\ focusedNow' = NextFocused(focusedNow, distractionStreakMs, r, loops[c].el)
  /\ loops' = [loops EXCEPT ![c].st = "sched"]
  /\ rafRef' = c
  /\ UNCHANGED <<cameraOn, modelReady, inferenceActive, detectorRef, videoSrc,
                 videoReady, boots, curBoot, sinceInfer>>
  /\ UNCHANGED timerVars
  /\ IntervalEffect(sinceInterval)
  /\ Note(r)
  /\ runMs' = CASE r = "present" -> 0
                 [] r = "absent"  -> Sat(runMs + loops[c].el)
                 [] OTHER         -> runMs
  /\ runLen' = CASE r = "present" -> 0
                  [] r = "absent"  -> IF runLen >= 0 THEN Min(runLen + 1, 2) ELSE -1
                  [] OTHER         -> -1
  /\ UNCHANGED <<ticks, logTicks>>

\* --------------------------------------------------------- passage of time
\* step ms go by; a due interval callback runs before more time passes
Advance(step) ==
  /\ isRunning => sinceInterval < IntervalMs
  /\ sinceInterval' = IF isRunning THEN sinceInterval + step ELSE 0
  /\ sinceInfer' = Sat(sinceInfer + step)
  /\ UNCHANGED <<cameraOn, modelReady, inferenceActive, focusedNow,
                 distractionStreakMs, detectorRef, videoSrc, videoReady, boots,
                 curBoot, loops, rafRef>>
  /\ UNCHANGED timerVars
  /\ Note("step")
  /\ UNCHANGED <<ticks, logTicks, runMs, runLen>>

\* -------------------------------------------------------------------- Init
\* the state after the first render, localStorage holding the log list
\* (loadSessions)
InitTimerFrom(list) ==
  /\ workMinutes = InitWorkMinutes
  /\ breakMinutes = InitBreakMinutes
  /\ isRunning = FALSE
  /\ isOnBreak = FALSE
  /\ secondsLeft = InitWorkMinutes * 60
  /\ hp = HpMax
  /\ focusSec = 0
  /\ distractSec = 0
  /\ hpStartRef = HpMax
  /\ mode = "alpha"
  /\ stored = list
  /\ sessions = stored
  /\ sessionStartRef = 0
  /\ dateNow = 0
  /\ sinceInterval = 0

\* first visit: nothing stored
InitTimer == InitTimerFrom(<< >>)

InitGhostFrom(list) ==
  /\ ticks = 0
  /\ lastOp = "init"
  /\ logTicks = [i \in 1..Len(list) |-> list[i].durationSec]
  /\ runMs = 0
  /\ runLen = -1
  /\ pre = Snapshot

InitGhost == InitGhostFrom(<< >>)

\* after the first commit: the effects have run once (production build) or,
\* under React.StrictMode in development, run / cleaned up / run again
InitAttn ==
  /\ cameraOn = TRUE
  /\ modelReady = FALSE
  /\ inferenceActive = FALSE
  /\ focusedNow = Unknown
  /\ distractionStreakMs = 0
  /\ detectorRef = FALSE
  /\ videoSrc = 0
  /\ videoReady = FALSE
  /\ loops = [c \in LoopIds |-> [st |-> "none", mr |-> FALSE, el |-> 0]]
  /\ rafRef = 0
  /\ sinceInfer = 0
  /\ \E strict \in BOOLEAN :
        IF strict
          THEN /\ curBoot = 2
               /\ boots = [b \in BootIds |->
                             IF b = 1 THEN [NewBoot(TRUE) EXCEPT !.cancelled = TRUE]
                             ELSE IF b = 2 THEN NewBoot(TRUE) ELSE IdleBoot]
          ELSE /\ curBoot = 1
               /\ boots = [b \in BootIds |-> IF b = 1 THEN NewBoot(TRUE) ELSE IdleBoot]

Init == InitTimer /\ InitAttn /\ InitGhost

\* -------------------------------------------------------------------- Next
Command ==
  \/ startTimer
  \/ pauseTimer
  \/ resetTimer
  \/ \E ok \in BOOLEAN : stopAndSave(ok)
  \/ \E raw \in WorkInputs : setWorkMinutes(raw)
  \/ \E raw \in BreakInputs : setBreakMinutes(raw)
  \/ \E m \in Modes : setMode(m)

Boot ==
  \/ \E b \in BootIds, ok \in BOOLEAN : BootBackend(b, ok)
  \/ \E b \in BootIds, ok \in BOOLEAN : BootGum(b, ok)
  \/ \E b \in BootIds, ok \in BOOLEAN : BootPlay(b, ok)
  \/ \E b \in BootIds, ok \in BOOLEAN : BootDetector(b, ok)

Infer ==
  \/ \E c \in LoopIds : LoopFrame(c)
  \/ \E c \in LoopIds, r \in {"present", "absent", "throw"} : InferResult(c, r)

Next ==
  \/ Command
  \/ Tick(MaxTicks)
  \/ toggleCamera
  \/ Boot
  \/ Infer
  \/ Advance(TimeStep)

Spec == Init /\ [][Next]_vars

\* ------------------------------------------------- restricted specifications
\* The state after a successful boot (production build) that took at least
\* MaxElapsed ms: stream live, video playing, detector loaded, loop 1 waiting
\* for its first frame.  Reachable from Init (see BootedReached).
Booted ==
  /\ cameraOn = TRUE
  /\ modelReady = TRUE
  /\ inferenceActive = TRUE
  /\ detectorRef = TRUE
  /\ videoReady = TRUE
  /\ focusedNow = Unknown
  /\ distractionStreakMs = 0
  /\ videoSrc = 1
  /\ curBoot = 1
  /\ boots = [b \in BootIds |->
               IF b = 1 THEN [pc |-> "done", cancelled |-> FALSE, cam |-> FALSE, stream |-> "live"]
               ELSE IdleBoot]
  /\ loops = [c \in LoopIds |->
               IF c = 1 THEN [st |-> "sched", mr |-> TRUE, el |-> 0]
               ELSE [st |-> "none", mr |-> FALSE, el |-> 0]]
  /\ rafRef = 1
  /\ sinceInfer = MaxElapsed

InitBooted == InitTimer /\ Booted /\ InitGhost

\* one or more sessions: start, pause, reset, save, ticks and classification,
\* the configuration and the camera left alone
NextTimer ==
  \/ startTimer
  \/ pauseTimer
  \/ resetTimer
  \/ \E ok \in BOOLEAN : stopAndSave(ok)
  \/ Tick(MaxTicks)
  \/ Infer
  \/ Advance(CoarseStep)

SpecTimer == InitBooted /\ [][NextTimer]_vars

\* one session of up to ScoreTicks ticks, scored and saved once
NextScore ==
  \/ Len(sessions) = 0 /\ startTimer
  \/ Len(sessions) = 0 /\ Tick(ScoreTicks)
  \/ Len(sessions) = 0 /\ \E ok \in BOOLEAN : stopAndSave(ok)
  \/ Infer
  \/ Advance(CoarseStep)

SpecScore == InitBooted /\ [][NextScore]_vars

\* uninterrupted runs of the clock through its phases: the minutes are
\* configured while stopped, a run ends with a reset
ClockRun ==
  \/ startTimer
  \/ ~isRunning /\ \E raw \in WorkInputs : setWorkMinutes(raw)
  \/ ~isRunning /\ \E raw \in BreakInputs : setBreakMinutes(raw)
  \/ resetTimer
  \/ Tick(ClockTicks)
  \/ Advance(CoarseStep)

SpecClock == Init /\ [][ClockRun]_vars

\* the camera, the boots and the inference loops, the timer never started
NextAttn ==
  \/ toggleCamera
  \/ Boot
  \/ Infer
  \/ Advance(TimeStep)

SpecAttn == Init /\ [][NextAttn]_vars

\* the running timer and the classification loop under the scheduling the
\* browser guarantees: time passes, and a due interval callback is run
NextLive ==
  \/ startTimer
  \/ Tick(MaxTicks)
  \/ Infer
  \/ Advance(TimeStep)

SpecLive == /\ InitBooted
            /\ [][NextLive]_vars
            /\ WF_vars(Tick(MaxTicks))
            /\ WF_vars(Advance(TimeStep))

\* the log left in localStorage by earlier visits in which save() was
\* pressed n times with no session started (the entry of position i was
\* saved i time units before this page was loaded)
OldEntry(i) ==
  [id |-> -i, startedAt |-> -i, endedAt |-> -i, durationSec |-> 0,
   workMinutes |-> InitWorkMinutes, breakMinutes |-> InitBreakMinutes,
   focusSec |-> 0, distractSec |-> 0,
   hpStart |-> HpMax, hpEnd |-> HpMax, mode |-> "alpha"]

OldLog(n) == [i \in 1..n |-> OldEntry(i)]

LogSizes == {0, LogCap - 1, LogCap}

InitLog ==
  \E n \in LogSizes :
    InitTimerFrom(OldLog(n)) /\ InitAttn /\ InitGhostFrom(OldLog(n))

\* sessions saved on top of a stored log, the classifier still booting
NextLog ==
  \/ startTimer
  \/ pauseTimer
  \/ resetTimer
  \/ \E ok \in BOOLEAN : stopAndSave(ok)
  \/ Tick(MaxTicks)
  \/ Advance(CoarseStep)

SpecLog == InitLog /\ [][NextLog]_vars

\* long sessions, through the floor of HP and the end of a 5-minute Work
\* phase: commands and classification events arrive during the first
\* MaxTicks ticks of a session and the last NearEnd seconds of a phase, in
\* between the timer just ticks
Eventful == ticks < MaxTicks \/ secondsLeft <= NearEnd

NextLong ==
  \/ Eventful /\ startTimer
  \/ Eventful /\ pauseTimer
  \/ Eventful /\ resetTimer
  \/ ~isRunning /\ ticks = 0 /\ \E raw \in WorkInputs : setWorkMinutes(raw)
  \/ Eventful /\ Infer
  \/ Tick(LongTicks)
  \/ Advance(CoarseStep)

SpecLong == InitBooted /\ [][NextLong]_vars

\* the minutes edited before, during and after a run that reaches the Break
\* phase of a 5-minute Work phase; the timer is paused only during a Break
WorkChoices  == {4, 6}
BreakChoices == {2, 4}

NextConfig ==
  \/ startTimer
  \/ isOnBreak /\ pauseTimer
  \/ resetTimer
  \/ \E raw \in WorkChoices : setWorkMinutes(raw)
  \/ \E raw \in BreakChoices : setBreakMinutes(raw)
  \/ Tick(ConfigTicks)
  \/ Advance(CoarseStep)

SpecConfig == Init /\ [][NextConfig]_vars

\* ===================================================================== claims

\* The booted state the timer specifications start from is reachable from
\* Init: BootedReached is violated under SpecAttn.
BootedReached == ~Booted

\* C1 (as stated): pause() changes only isRunning - right after a pause of
\* a running timer, secondsLeft, the phase, HP, focusSec and distractSec are
\* what they were right before it.
PauseKeepsClock ==
  (lastOp = "pause" /\ pre.isRunning) =>
    /\ secondsLeft = pre.secondsLeft
    /\ isOnBreak = pre.isOnBreak
    /\ hp = pre.hp
    /\ focusSec = pre.focusSec
    /\ distractSec = pre.distractSec

\* C2: focusSec + distractSec is the number of ticks processed since the
\* session was opened (or since the last save/reset), in every state and in
\* every saved log entry.
TicksAccounted ==
  /\ focusSec + distractSec = ticks
  /\ Len(logTicks) = Len(sessions)
  /\ \A i \in DOMAIN sessions :
        /\ sessions[i].focusSec + sessions[i].distractSec = logTicks[i]
        /\ sessions[i].durationSec = logTicks[i]

\* C2 witness: an entry saved after a focused and a distracted tick.
TicksAccountedSeen ==
  /\ Len(sessions) > 0
  /\ sessions[1].focusSec > 0
  /\ sessions[1].distractSec > 0
  /\ logTicks[1] = sessions[1].focusSec + sessions[1].distractSec

\* the entries of sessions started at HP = 100 and saved after 10 focused
\* and 5 distracted ticks
TenFiveEntries ==
  {i \in DOMAIN sessions : /\ sessions[i].hpStart = HpMax
                           /\ sessions[i].focusSec = 10
                           /\ sessions[i].distractSec = 5}

\* C3 (as stated): such an entry has hpEnd = 97.6, focusSec = 10,
\* distractSec = 5 and durationSec = 15, whatever the order of the ticks.
SavedScoreExact ==
  \A i \in TenFiveEntries :
    /\ sessions[i].hpEnd = 9760
    /\ sessions[i].durationSec = 15

\* C3 (amended): such an entry has durationSec = 15 and an hpEnd between
\* 97.5 (all focused ticks first, each clamped away at 100) and 98.1 (no
\* focused tick clamped), depending on the order of the ticks.
SavedScoreRange ==
  \A i \in TenFiveEntries :
    /\ sessions[i].hpEnd >= 9750
    /\ sessions[i].hpEnd <= 9810
    /\ sessions[i].durationSec = 15

\* C3 witness: a 10 + 5 session saved with some, but not all, of the
\* focused ticks clamped.
SavedScoreSeen ==
  \E i \in TenFiveEntries : sessions[i].hpEnd > 9750 /\ sessions[i].hpEnd < 9810

\* C4 (as stated): while the camera is disabled AttentionState is Unknown.
CameraOffUnknown == ~cameraOn => focusedNow = Unknown

\* C5 (as stated): no boot whose effect has been cleaned up holds a live
\* camera stream.
NoLeakedStream ==
  \A b \in BootIds : boots[b].cancelled => boots[b].stream # "live"

\* C6 (as stated): while the timer keeps running, the next tick eventually
\* fires, whatever the classification loop does.
TickEventuallyFires ==
  \A n \in 0..(MaxTicks - 1) :
    (isRunning /\ ticks = n) ~> (~isRunning \/ ticks # n)

\* C7: in an uninterrupted run from Work(W*60) with W and B unchanged, the
\* phase is Work with secondsLeft = W*60 - t for the first W*60 ticks,
\* Break with secondsLeft = B*60 exactly at tick W*60, counts down for B*60
\* ticks, and is back at Work(W*60) at tick W*60 + B*60 (and so on).
PhaseSchedule ==
  LET w   == workMinutes * 60
      b   == breakMinutes * 60
      pos == ticks % (w + b)
  IN  IF pos < w
        THEN ~isOnBreak /\ secondsLeft = w - pos
        ELSE isOnBreak /\ secondsLeft = b - (pos - w)

\* C7 witness: W = 25, B = 5, after 1500 ticks: Break with 300 s left.
PhaseScheduleSeen ==
  /\ workMinutes = 25 /\ breakMinutes = 5
  /\ ticks = 1500
  /\ isOnBreak /\ secondsLeft = 300
  /\ lastOp = "tick" /\ ~pre.isOnBreak /\ pre.secondsLeft = 1

\* C8: right after an absent sample of a run of absent samples that follows
\* a present sample, AttentionState is Distracted exactly when the elapsed
\* times of the run add up to more than 1500 ms.
GraceThreshold ==
  (lastOp = "absent" /\ runLen >= 1) =>
    (focusedNow = Distracted <=> runMs > distractGraceMs)

\* C8 witness: the second or a later absent sample of a run crosses the
\* threshold and turns Focused into Distracted.
GraceThresholdSeen ==
  /\ lastOp = "absent" /\ runLen = 2
  /\ pre.focusedNow = Focused /\ pre.streak > 0
  /\ focusedNow = Distracted

\* C9: right after a present sample the streak is 0 and AttentionState is
\* Focused; and after a single absent sample within the grace period
\* AttentionState is not Distracted.
PresentResets ==
  /\ lastOp = "present" => (distractionStreakMs = 0 /\ focusedNow = Focused)
  /\ (runLen = 1 /\ runMs <= distractGraceMs) => focusedNow # Distracted

\* C9 witness: present, one absent sample within the grace, present again.
PresentResetsSeen ==
  /\ lastOp = "present"
  /\ pre.runLen = 1 /\ pre.streak > 0 /\ pre.streak <= distractGraceMs
  /\ pre.focusedNow = Focused
  /\ focusedNow = Focused /\ distractionStreakMs = 0

\* C10: right after reset() the counters are 0, HP is 100, the phase is
\* Work with secondsLeft = workMinutes*60, the timer is stopped, no session
\* is open and the log is what it was.
ResetClears ==
  lastOp = "reset" =>
    /\ focusSec = 0 /\ distractSec = 0
    /\ hp = HpMax
    /\ ~isOnBreak
    /\ secondsLeft = workMinutes * 60
    /\ ~isRunning
    /\ sessionStartRef = 0
    /\ sessions = pre.sessions

\* C10 witness: a reset of a running timer in its Break phase with
\* accumulated counters and a lowered HP.
ResetClearsSeen ==
  /\ lastOp = "reset"
  /\ pre.isRunning /\ pre.isOnBreak /\ pre.distractSec > 0 /\ pre.hp < HpMax
  /\ pre.secondsLeft # workMinutes * 60
  /\ focusSec = 0 /\ distractSec = 0 /\ hp = HpMax /\ ~isOnBreak

\* C11 (as stated): right after any save() the log is the previous log with
\* exactly one entry put in front (the eldest dropped at the cap), that entry
\* carries the focusSec, distractSec and HP of the moment of the save, the
\* current workMinutes, breakMinutes and mode, and durationSec = focusSec +
\* distractSec; and the counters, HP, phase, secondsLeft, isRunning and the
\* open-session marker are what reset() leaves.
SaveLikeReset ==
  lastOp \in {"save", "saveFailed"} =>
    /\ Len(sessions) = Min(Len(pre.sessions) + 1, LogCap)
    /\ \A i \in 2..Len(sessions) : sessions[i] = pre.sessions[i - 1]
    /\ sessions[1].focusSec = pre.focusSec
    /\ sessions[1].distractSec = pre.distractSec
    /\ sessions[1].hpEnd = pre.hp
    /\ sessions[1].durationSec = pre.focusSec + pre.distractSec
    /\ sessions[1].workMinutes = workMinutes
    /\ sessions[1].breakMinutes = breakMinutes
    /\ sessions[1].mode = mode
    /\ focusSec = 0 /\ distractSec = 0
    /\ hp = HpMax
    /\ ~isOnBreak
    /\ secondsLeft = workMinutes * 60
    /\ ~isRunning
    /\ sessionStartRef = 0

\* C15 (as stated): once the boot of the current camera setting has failed
\* (backend, camera or playback failure; or a model load failure after which
\* the loop has run a frame), AttentionState is Unknown.
InitFailedUnknown ==
  (\/ boots[curBoot].pc = "failed"
   \/ boots[curBoot].pc = "done" /\ ~modelReady /\ lastOp = "unavailable")
  => focusedNow = Unknown

\* C16: right after a sample for which the classifier is unavailable (the
\* frame found the detector, the model or the video not ready, or
\* estimateFaces threw), AttentionState is Unknown and the streak is what it
\* was before the sample.
UnavailableUnknown ==
  lastOp \in {"unavailable", "throw"} =>
    /\ focusedNow = Unknown
    /\ distractionStreakMs = pre.streak

\* C16 witness: estimateFaces throws while Distracted with a streak above
\* the grace period.
UnavailableUnknownSeen ==
  /\ lastOp = "throw"
  /\ pre.focusedNow = Distracted /\ pre.streak > distractGraceMs
  /\ focusedNow = Unknown /\ distractionStreakMs = pre.streak

\* C18: start() of a running timer changes nothing; and while a session is
\* open, no step other than reset() or a completed save() changes startedAt
\* or hpStart.
StartKeepsSession ==
  [][/\ (isRunning /\ lastOp' = "start") =>
          UNCHANGED <<timerVars, attnVars, sinceInterval>>
     /\ (sessionStartRef # 0 /\ lastOp' \notin {"reset", "save"}) =>
          UNCHANGED <<sessionStartRef, hpStartRef>>]_vars

\* C18 witness: a paused session with a lowered HP is resumed and keeps the
\* hpStart = 100 captured at its first start.
StartKeepsSessionSeen ==
  /\ lastOp = "start"
  /\ ~pre.isRunning /\ pre.open /\ isRunning
  /\ hp < HpMax /\ hpStartRef = HpMax
  /\ sessionStartRef # 0

\* C19 (as stated): after a save() whose storage write failed the log holds
\* the new entry, and the session is not left open with its counters still
\* accumulated.
NoPartialSave ==
  lastOp = "saveFailed" =>
    /\ Len(sessions) > 0
    /\ sessions[1].durationSec = pre.focusSec + pre.distractSec
    /\ ~(sessionStartRef # 0 /\ focusSec + distractSec > 0)

\* C20: in every state (a tick may read any of them) Focused comes with a
\* streak within the grace period and Distracted with a streak above it.
DebouncerWhole ==
  /\ focusedNow = Focused => distractionStreakMs <= distractGraceMs
  /\ focusedNow = Distracted => distractionStreakMs > distractGraceMs

\* C20 witness: a tick reads Distracted with the streak above the grace
\* period while a classification is awaited, and scores it.
DebouncerWholeSeen ==
  /\ lastOp = "tick"
  /\ pre.focusedNow = Distracted /\ pre.streak > distractGraceMs
  /\ \E c \in LoopIds : loops[c].st = "await"
  /\ distractSec = pre.distractSec + 1

\* entries of a log in the order newest first
NewestFirst(list) ==
  \A i \in 1..(Len(list) - 1) : list[i].endedAt > list[i + 1].endedAt

\* C12: the log in memory and the persisted log never exceed 300 entries
\* and are ordered newest first; every save() puts its entry in front of the
\* previous entries, kept unmodified and in order, of which only the last
\* one is dropped when there were 300; a completed save persists that log.
LogCapped ==
  /\ Len(sessions) <= LogCap /\ Len(stored) <= LogCap
  /\ NewestFirst(sessions) /\ NewestFirst(stored)
  /\ lastOp \in {"save", "saveFailed"} =>
       /\ sessions[1].endedAt = dateNow
       /\ Len(sessions) = Min(Len(pre.sessions) + 1, LogCap)
       /\ \A i \in 2..Len(sessions) : sessions[i] = pre.sessions[i - 1]
  /\ lastOp = "save" => stored = sessions

\* C12 witness: a completed save onto a log of 300 entries; the entry that
\* was last but one is now the last.
LogCappedSeen ==
  /\ lastOp = "save"
  /\ Len(pre.sessions) = LogCap /\ Len(sessions) = LogCap
  /\ sessions[LogCap] = pre.sessions[LogCap - 1]
  /\ sessions[1].endedAt = dateNow /\ sessions[1].distractSec > 0
  /\ stored = sessions

\* C13: HP is within [0, 100] in every reachable state.
HpInRange == 0 <= hp /\ hp <= HpMax

\* C13 witness: a tick scored as distracted at HP = 0 leaves HP at 0.
HpInRangeSeen ==
  /\ lastOp = "tick"
  /\ pre.hp = 0 /\ pre.focusedNow # Focused
  /\ hp = 0 /\ distractSec = pre.distractSec + 1

\* C14: right after a tick the clock has advanced (one second less, or at
\* secondsLeft <= 1 the other phase with its full length) and exactly one
\* scoring update has been applied, chosen by the AttentionState before the
\* tick: Focused -> HP + 0.06 (at most 100) and focusSec + 1; Distracted or
\* Unknown -> HP - 0.5 (at least 0) and distractSec + 1; a flipping tick
\* scores the same way.
TickWhole ==
  lastOp = "tick" =>
    /\ IF pre.secondsLeft <= 1
         THEN /\ isOnBreak = ~pre.isOnBreak
              /\ secondsLeft = (IF isOnBreak THEN breakMinutes ELSE workMinutes) * 60
         ELSE /\ isOnBreak = pre.isOnBreak
              /\ secondsLeft = pre.secondsLeft - 1
    /\ IF pre.focusedNow = Focused
         THEN /\ hp = (IF pre.hp + focusRewardPerSec > HpMax
                        THEN HpMax ELSE pre.hp + focusRewardPerSec)
              /\ focusSec = pre.focusSec + 1
              /\ distractSec = pre.distractSec
         ELSE /\ hp = (IF pre.hp - distractPenaltyPerSec < 0
                        THEN 0 ELSE pre.hp - distractPenaltyPerSec)
              /\ focusSec = pre.focusSec
              /\ distractSec = pre.distractSec + 1

\* C14 witness: the tick that ends the Work phase is read as Focused after
\* distracted ticks: the phase flips and HP and focusSec go up.
TickWholeSeen ==
  /\ lastOp = "tick"
  /\ pre.secondsLeft = 1 /\ ~pre.isOnBreak /\ isOnBreak
  /\ pre.focusedNow = Focused
  /\ pre.distractSec > 0
  /\ hp = pre.hp + focusRewardPerSec /\ focusSec = pre.focusSec + 1
  /\ distractSec = pre.distractSec

\* C17: right after workMinutes (breakMinutes) is edited, secondsLeft is the
\* new value * 60 if the timer was stopped in the Work (Break) phase, and
\* what it was otherwise (running, or stopped in the other phase); the
\* phase and isRunning are what they were.
ConfigReload ==
  /\ lastOp = "setWork" =>
       /\ secondsLeft = (IF ~pre.isRunning /\ ~pre.isOnBreak
                           THEN workMinutes * 60 ELSE pre.secondsLeft)
       /\ isOnBreak = pre.isOnBreak /\ isRunning = pre.isRunning
  /\ lastOp = "setBreak" =>
       /\ secondsLeft = (IF ~pre.isRunning /\ pre.isOnBreak
                           THEN breakMinutes * 60 ELSE pre.secondsLeft)
       /\ isOnBreak = pre.isOnBreak /\ isRunning = pre.isRunning

\* C17 witness: breakMinutes edited while paused in the Break phase reloads
\* the countdown to the new length.
ConfigReloadSeen ==
  /\ lastOp = "setBreak"
  /\ ~pre.isRunning /\ pre.isOnBreak
  /\ pre.secondsLeft # breakMinutes * 60
  /\ secondsLeft = breakMinutes * 60

\* C21: in every state a running timer has an open session; every tick was
\* taken by a running timer with an open session; and a step that closes a
\* session is a reset() or a completed save().
RunningIsOpen ==
  /\ [](/\ isRunning => sessionStartRef # 0
        /\ lastOp = "tick" => (pre.isRunning /\ pre.open))
  /\ [][(sessionStartRef # 0 /\ sessionStartRef' = 0) =>
          lastOp' \in {"reset", "save"}]_vars

\* C21 witness: the first tick of a session, taken while it is open.
RunningIsOpenSeen ==
  /\ lastOp = "tick"
  /\ pre.isRunning /\ pre.open
  /\ isRunning /\ sessionStartRef # 0
  /\ ticks = 1 /\ focusSec + distractSec = 1
  /\ secondsLeft = workMinutes * 60 - 1

\* C22: hpStart is 100 in every log entry, the captured hpStart is 100 in
\* every state, and HP is 100 whenever no session is open.
HpStartFull ==
  /\ \A i \in DOMAIN sessions : sessions[i].hpStart = HpMax
  /\ hpStartRef = HpMax
  /\ sessionStartRef = 0 => hp = HpMax

\* C22 witness: a save() with no session open, after an earlier session was
\* started and reset: the entry has hpStart = 100.
HpStartFullSeen ==
  /\ lastOp = "save"
  /\ ~pre.open
  /\ Len(sessions) = 1 /\ dateNow = 2
  /\ sessions[1].startedAt = sessions[1].endedAt
  /\ sessions[1].hpStart = HpMax

====
